---- MODULE Spec2Model ----
(***************************************************************************)
(* USB DFU function driver (usb/class/dfu/device/dfudf.c).                 *)
(*                                                                         *)
(* The state is the driver's global data: the DFU state machine            *)
(* (dfu_state, dfu_status), the staged fragment (dfu_download_offset,      *)
(* dfu_download_length), the manifestation flag, the function data         *)
(* (func_iface, enabled) and the attributes of the functional descriptor.  *)
(* The operations are the control-request handler dfudf_req with its IN    *)
(* and OUT sub-handlers, the function control dfudf_ctrl (enable and       *)
(* disable), and the main application that flashes the staged fragment.    *)
(* The variables call, pre, ret and xfers record the last call made into   *)
(* the driver, the driver's data when it was made, the value it returned   *)
(* and the transfers it queued.                                            *)
(***************************************************************************)
EXTENDS Integers, Sequences, FiniteSets, TLC

VARIABLES
    dfu_state,                  \* enum usb_dfu_state dfu_state
    dfu_status,                 \* enum usb_dfu_status dfu_status
    dfu_download_length,        \* uint16_t
    dfu_download_offset,        \* size_t (32 bit)
    dfu_manifestation_complete, \* bool
    func_iface,                 \* _dfudf_funcd.func_iface (uint8_t)
    enabled,                    \* _dfudf_funcd.enabled
    bmAttributes,               \* usb_dfu_func_desc->bmAttributes, as the set of its flags
    call,                       \* the last call into the driver
    pre,                        \* the driver's data when that call was made
    ret,                        \* the value the last call returned
    xfers                       \* the transfers the last call queued with usbdc_xfer

vars == <<dfu_state, dfu_status, dfu_download_length, dfu_download_offset,
          dfu_manifestation_complete, func_iface, enabled, bmAttributes,
          call, pre, ret, xfers>>

dfu_vars == <<dfu_state, dfu_status, dfu_download_length, dfu_download_offset,
              dfu_manifestation_complete>>

(***************************************************************************)
(* Bounds of the model.                                                    *)
(***************************************************************************)
\* block indexes (wValue) 0..MaxBlock are tried, and the largest one, 65535
MaxBlock == 0
\* interface numbers 0..MaxIface are tried (wIndex, bInterfaceNumber)
MaxIface == 1

(***************************************************************************)
(* Program constants.  The DFU state, status and request codes are those   *)
(* of the DFU 1.1 class specification, which the enums of the driver       *)
(* follow.                                                                 *)
(***************************************************************************)
USB_DFU_STATE_DFU_IDLE == 2
USB_DFU_STATE_DFU_DNLOAD_SYNC == 3
USB_DFU_STATE_DFU_DNBUSY == 4
USB_DFU_STATE_DFU_DNLOAD_IDLE == 5
USB_DFU_STATE_DFU_MANIFEST_SYNC == 6
USB_DFU_STATE_DFU_MANIFEST == 7
USB_DFU_STATE_DFU_MANIFEST_WAIT_RESET == 8
USB_DFU_STATE_DFU_ERROR == 10

USB_DFU_STATUS_OK == 0
USB_DFU_STATUS_ERR_PROG == 6

USB_DFU_DETACH == 0
USB_DFU_DNLOAD == 1
USB_DFU_UPLOAD == 2
USB_DFU_GETSTATUS == 3
USB_DFU_CLRSTATUS == 4
USB_DFU_GETSTATE == 5
USB_DFU_ABORT == 6

USB_SETUP_STAGE == 0
USB_DATA_STAGE == 1

USB_DFU_CLASS == 254
USB_EP_DIR_IN == 128

\* sizeof(dfu_download_data)
DownloadDataSize == 512
\* func_iface value of an unbound function
NoIface == 255

\* flags of bmAttributes the driver tests
ATTR_DNLOAD == "USB_REQ_DFU_DNLOAD"
ATTR_MANIFEST_TOLERANT == "USB_DFU_ATTRIBUTES_MANIFEST_TOLERANT"

ERR_NONE == "ERR_NONE"
ERR_NOT_FOUND == "ERR_NOT_FOUND"
ERR_ALREADY_INITIALIZED == "ERR_ALREADY_INITIALIZED"
ERR_NO_RESOURCE == "ERR_NO_RESOURCE"
ERR_UNSUPPORTED_OP == "ERR_UNSUPPORTED_OP"
ERR_INVALID_ARG == "ERR_INVALID_ARG"

(***************************************************************************)
(* Inputs.                                                                 *)
(***************************************************************************)
\* bmRequestType: direction (bit 7), type (bits 6..5), recipient (bits 4..0)
MakeRequestType(dir, type, recipient) == dir * USB_EP_DIR_IN + type * 32 + recipient
\* class/interface OUT (0x21), class/interface IN (0xA1), and two that are not
\* class requests: standard/interface OUT (0x01), vendor/interface IN (0xC1)
ClassOut == MakeRequestType(0, 1, 1)
ClassIn == MakeRequestType(1, 1, 1)
StandardOut == MakeRequestType(0, 0, 1)
VendorIn == MakeRequestType(1, 2, 1)
\* bRequest: the seven DFU request codes and one code that is none of them
RequestCodes == 0..7
Blocks == (0..MaxBlock) \cup {65535}
Lengths == {0, 1, DownloadDataSize, DownloadDataSize + 1}
Ifaces == 0..MaxIface
Stages == {USB_SETUP_STAGE, USB_DATA_STAGE}

usb_req(type, code, value, index, length) ==
    [bmRequestType |-> type, bRequest |-> code, wValue |-> value,
     wIndex |-> index, wLength |-> length]

\* struct usb_req.  wValue and wLength vary for the class OUT DNLOAD request,
\* the only request whose handler reads them; the requests that are not class
\* requests carry a DFU request code each
Requests ==
    {usb_req(ClassOut, USB_DFU_DNLOAD, v, i, l) : v \in Blocks, i \in Ifaces, l \in Lengths}
    \cup {usb_req(t, c, 0, i, 0) : t \in {ClassOut, ClassIn}, c \in RequestCodes, i \in Ifaces}
    \cup {usb_req(StandardOut, USB_DFU_ABORT, 0, i, 0) : i \in Ifaces}
    \cup {usb_req(VendorIn, USB_DFU_GETSTATUS, 0, i, 0) : i \in Ifaces}

\* the control endpoint
Endpoints == {0}

\* struct usbd_descriptors handed to dfudf_ctrl: sod is the interface
\* descriptor (sod[2] = bInterfaceNumber, sod[5] = bInterfaceClass, here at
\* positions 3 and 6), <<>> when sod is NULL
IfaceDesc(num, class) == [ptr |-> "desc", sod |-> <<9, 4, num, 0, 0, class>>]
NullSod == [ptr |-> "desc", sod |-> <<>>]
NullDesc == [ptr |-> "NULL", sod |-> <<>>]
Classes == {USB_DFU_CLASS, 255}
EnableDescs == {IfaceDesc(n, c) : n \in Ifaces, c \in Classes} \cup {NullSod}
DisableDescs == {IfaceDesc(n, c) : n \in Ifaces, c \in Classes} \cup {NullDesc}
Controls == {"USBDF_ENABLE", "USBDF_DISABLE", "USBDF_GET_IFACE", "USBDF_OTHER"}

\* the driver's data, as the last call found it
Snapshot ==
    [dfu_state |-> dfu_state, dfu_status |-> dfu_status,
     dfu_download_length |-> dfu_download_length,
     dfu_download_offset |-> dfu_download_offset,
     dfu_manifestation_complete |-> dfu_manifestation_complete,
     func_iface |-> func_iface, enabled |-> enabled]

(***************************************************************************)
(* Integer widths.                                                         *)
(***************************************************************************)
U8(x) == x % 256
U16(x) == x % 65536
\* x modulo 2^32, as the low and the high 16 bit halves
SizeT(x) == (x % 65536) + 65536 * ((x \div 65536) % 65536)

(***************************************************************************)
(* The transfer primitive of the device core: usbdc_xfer(ep, buf, size,    *)
(* zlp) queues one transfer on the endpoint.  buf names the buffer, data   *)
(* is its content when the driver filled it.                               *)
(***************************************************************************)
Xfer(ep, buf, data, size) == [ep |-> ep, buf |-> buf, data |-> data, size |-> size]

usbdc_xfer(ep, buf, data, size) ==
    /\ xfers' = <<Xfer(ep, buf, data, size)>>
    /\ ret' = ERR_NONE

\* a handler that returns without queuing a transfer
NoXfer(code) ==
    /\ xfers' = <<>>
    /\ ret' = code

(***************************************************************************)
(* dfudf_in_req: the device-to-host class requests.                        *)
(***************************************************************************)
dfudf_in_req_UPLOAD(ep, req, stage) ==
    /\ dfu_state' = USB_DFU_STATE_DFU_ERROR
    /\ NoXfer(ERR_UNSUPPORTED_OP)
    /\ UNCHANGED <<dfu_status, dfu_download_length, dfu_download_offset,
                   dfu_manifestation_complete>>

\* mutant: the manifestation tolerant test is inverted
Mutant_GetStatus_tolerant_inverted ==
    IF dfu_state = USB_DFU_STATE_DFU_DNLOAD_SYNC
    THEN USB_DFU_STATE_DFU_DNBUSY
    ELSE IF dfu_state = USB_DFU_STATE_DFU_MANIFEST_SYNC
    THEN IF ~dfu_manifestation_complete
         THEN USB_DFU_STATE_DFU_MANIFEST
         ELSE IF ATTR_MANIFEST_TOLERANT \notin bmAttributes
         THEN USB_DFU_STATE_DFU_IDLE
         ELSE USB_DFU_STATE_DFU_MANIFEST_WAIT_RESET
    ELSE dfu_state

\* mutant: a status poll in Error puts the machine back in Idle
Mutant_GetStatus_leaves_error ==
    IF dfu_state = USB_DFU_STATE_DFU_DNLOAD_SYNC
    THEN USB_DFU_STATE_DFU_DNBUSY
    ELSE IF dfu_state = USB_DFU_STATE_DFU_MANIFEST_SYNC
    THEN IF ~dfu_manifestation_complete
         THEN USB_DFU_STATE_DFU_MANIFEST
         ELSE IF ATTR_MANIFEST_TOLERANT \in bmAttributes
         THEN USB_DFU_STATE_DFU_IDLE
         ELSE USB_DFU_STATE_DFU_MANIFEST_WAIT_RESET
    ELSE IF dfu_state = USB_DFU_STATE_DFU_ERROR
    THEN USB_DFU_STATE_DFU_IDLE
    ELSE dfu_state

\* mutant: a status poll in DnBusy ends the block, as if it were flashed
Mutant_GetStatus_ends_busy ==
    IF dfu_state = USB_DFU_STATE_DFU_DNLOAD_SYNC
    THEN USB_DFU_STATE_DFU_DNBUSY
    ELSE IF dfu_state = USB_DFU_STATE_DFU_DNBUSY
    THEN USB_DFU_STATE_DFU_DNLOAD_IDLE
    ELSE IF dfu_state = USB_DFU_STATE_DFU_MANIFEST_SYNC
    THEN IF ~dfu_manifestation_complete
         THEN USB_DFU_STATE_DFU_MANIFEST
         ELSE IF ATTR_MANIFEST_TOLERANT \in bmAttributes
         THEN USB_DFU_STATE_DFU_IDLE
         ELSE USB_DFU_STATE_DFU_MANIFEST_WAIT_RESET
    ELSE dfu_state

\* the state after a GETSTATUS poll
GetStatusNextState ==
    IF dfu_state = USB_DFU_STATE_DFU_DNLOAD_SYNC
    THEN USB_DFU_STATE_DFU_DNBUSY
    ELSE IF dfu_state = USB_DFU_STATE_DFU_MANIFEST_SYNC
    THEN IF ~dfu_manifestation_complete
         THEN USB_DFU_STATE_DFU_MANIFEST
         ELSE IF ATTR_MANIFEST_TOLERANT \in bmAttributes
         THEN USB_DFU_STATE_DFU_IDLE
         ELSE USB_DFU_STATE_DFU_MANIFEST_WAIT_RESET
    ELSE dfu_state

\* the 6 byte response, filled before the transition
GetStatusResponse == <<U8(dfu_status), 10, 0, 0, U8(dfu_state), 0>>

dfudf_in_req_GETSTATUS(ep, req, stage) ==
    /\ usbdc_xfer(ep, "response", GetStatusResponse, 6)
    /\ dfu_state' = GetStatusNextState
    /\ UNCHANGED <<dfu_status, dfu_download_length, dfu_download_offset,
                   dfu_manifestation_complete>>

\* mutant: the status is returned for the state
Mutant_GETSTATE_returns_status(ep, req, stage) ==
    /\ usbdc_xfer(ep, "response", <<U8(dfu_status)>>, 1)
    /\ UNCHANGED dfu_vars

dfudf_in_req_GETSTATE(ep, req, stage) ==
    /\ usbdc_xfer(ep, "response", <<U8(dfu_state)>>, 1)
    /\ UNCHANGED dfu_vars

\* mutant: the unknown request is stalled as unsupported and the state kept
Mutant_in_default_keeps_state(ep, req, stage) ==
    /\ NoXfer(ERR_UNSUPPORTED_OP)
    /\ UNCHANGED dfu_vars

dfudf_in_req_default(ep, req, stage) ==
    /\ dfu_state' = USB_DFU_STATE_DFU_ERROR
    /\ NoXfer(ERR_INVALID_ARG)
    /\ UNCHANGED <<dfu_status, dfu_download_length, dfu_download_offset,
                   dfu_manifestation_complete>>

\* mutant: the data stage is handled like the setup stage
Mutant_in_data_stage_handled(ep, req, stage) ==
    CASE req.bRequest = USB_DFU_UPLOAD -> dfudf_in_req_UPLOAD(ep, req, stage)
      [] req.bRequest = USB_DFU_GETSTATUS -> dfudf_in_req_GETSTATUS(ep, req, stage)
      [] req.bRequest = USB_DFU_GETSTATE -> dfudf_in_req_GETSTATE(ep, req, stage)
      [] OTHER -> dfudf_in_req_default(ep, req, stage)

\* the data stage of an IN request is the driver's own data: nothing to do
dfudf_in_req_data_stage(ep, req, stage) ==
    /\ NoXfer(ERR_NONE)
    /\ UNCHANGED dfu_vars

dfudf_in_req(ep, req, stage) ==
    IF stage = USB_DATA_STAGE
    THEN dfudf_in_req_data_stage(ep, req, stage)
    ELSE CASE req.bRequest = USB_DFU_UPLOAD -> dfudf_in_req_UPLOAD(ep, req, stage)
           [] req.bRequest = USB_DFU_GETSTATUS -> dfudf_in_req_GETSTATUS(ep, req, stage)
           [] req.bRequest = USB_DFU_GETSTATE -> dfudf_in_req_GETSTATE(ep, req, stage)
           [] OTHER -> dfudf_in_req_default(ep, req, stage)

(***************************************************************************)
(* dfudf_out_req: the host-to-device class requests.                       *)
(***************************************************************************)
dfudf_out_req_DETACH(ep, req, stage) ==
    /\ dfu_state' = USB_DFU_STATE_DFU_ERROR
    /\ NoXfer(ERR_UNSUPPORTED_OP)
    /\ UNCHANGED <<dfu_status, dfu_download_length, dfu_download_offset,
                   dfu_manifestation_complete>>

\* mutant: the status is cleared in the Error state only
Mutant_ClrStatus_only_in_error == dfu_state = USB_DFU_STATE_DFU_ERROR

\* only clear in case there is an error
ClrStatusClears ==
    dfu_state = USB_DFU_STATE_DFU_ERROR \/ dfu_status # USB_DFU_STATUS_OK

dfudf_out_req_CLRSTATUS(ep, req, stage) ==
    /\ IF ClrStatusClears
       THEN /\ dfu_status' = USB_DFU_STATUS_OK
            /\ dfu_state' = USB_DFU_STATE_DFU_IDLE
       ELSE UNCHANGED <<dfu_status, dfu_state>>
    /\ usbdc_xfer(ep, "NULL", <<>>, 0)
    /\ UNCHANGED <<dfu_download_length, dfu_download_offset,
                   dfu_manifestation_complete>>

\* mutant: the abort forgets to reset the download progress
Mutant_ABORT_keeps_offset(ep, req, stage) ==
    /\ dfu_state' = USB_DFU_STATE_DFU_IDLE
    /\ usbdc_xfer(ep, "NULL", <<>>, 0)
    /\ UNCHANGED <<dfu_status, dfu_download_length, dfu_download_offset,
                   dfu_manifestation_complete>>

dfudf_out_req_ABORT(ep, req, stage) ==
    /\ dfu_download_offset' = 0
    /\ dfu_state' = USB_DFU_STATE_DFU_IDLE
    /\ usbdc_xfer(ep, "NULL", <<>>, 0)
    /\ UNCHANGED <<dfu_status, dfu_download_length, dfu_manifestation_complete>>

\* the rejections of DNLOAD that warn about a programming error
DnloadProgError ==
    /\ dfu_status' = USB_DFU_STATUS_ERR_PROG
    /\ dfu_state' = USB_DFU_STATE_DFU_ERROR
    /\ NoXfer(ERR_INVALID_ARG)
    /\ UNCHANGED <<dfu_download_length, dfu_download_offset,
                   dfu_manifestation_complete>>

DnloadNotEnabled ==
    /\ dfu_state' = USB_DFU_STATE_DFU_ERROR
    /\ NoXfer(ERR_UNSUPPORTED_OP)
    /\ UNCHANGED <<dfu_status, dfu_download_length, dfu_download_offset,
                   dfu_manifestation_complete>>

\* mutant: the manifestation status of the last download is kept
Mutant_DnloadCompleted_keeps_flag(ep) ==
    /\ dfu_state' = USB_DFU_STATE_DFU_MANIFEST_SYNC
    /\ usbdc_xfer(ep, "NULL", <<>>, 0)
    /\ UNCHANGED <<dfu_status, dfu_download_length, dfu_download_offset,
                   dfu_manifestation_complete>>

\* download completed: prepare for the manifestation phase
DnloadCompleted(ep) ==
    /\ dfu_manifestation_complete' = FALSE
    /\ dfu_state' = USB_DFU_STATE_DFU_MANIFEST_SYNC
    /\ usbdc_xfer(ep, "NULL", <<>>, 0)
    /\ UNCHANGED <<dfu_status, dfu_download_length, dfu_download_offset>>

\* mutant: the fragment is accepted as soon as its receive is armed
Mutant_DnloadSetup_accepts(ep, req) ==
    /\ dfu_state' = USB_DFU_STATE_DFU_DNLOAD_SYNC
    /\ usbdc_xfer(ep, "dfu_download_data", <<>>, req.wLength)
    /\ UNCHANGED <<dfu_status, dfu_download_length, dfu_download_offset,
                   dfu_manifestation_complete>>

\* setup stage of a fragment: receive wLength bytes into dfu_download_data
DnloadSetup(ep, req) ==
    /\ usbdc_xfer(ep, "dfu_download_data", <<>>, req.wLength)
    /\ UNCHANGED dfu_vars

\* mutant: the block index is taken for the byte offset
Mutant_DnloadData_block_as_offset(ep, req) ==
    /\ dfu_download_offset' = SizeT(req.wValue)
    /\ dfu_download_length' = U16(req.wLength)
    /\ dfu_state' = USB_DFU_STATE_DFU_DNLOAD_SYNC
    /\ usbdc_xfer(ep, "NULL", <<>>, 0)
    /\ UNCHANGED <<dfu_status, dfu_manifestation_complete>>

\* data stage of a fragment: remember the block and let main flash it
DnloadData(ep, req) ==
    /\ dfu_download_offset' = SizeT(req.wValue * DownloadDataSize)
    /\ dfu_download_length' = U16(req.wLength)
    /\ dfu_state' = USB_DFU_STATE_DFU_DNLOAD_SYNC
    /\ usbdc_xfer(ep, "NULL", <<>>, 0)
    /\ UNCHANGED <<dfu_status, dfu_manifestation_complete>>

\* mutant: the length is not checked against the buffer
Mutant_DNLOAD_no_length_check(ep, req, stage) ==
    IF ATTR_DNLOAD \notin bmAttributes
    THEN DnloadNotEnabled
    ELSE IF dfu_state # USB_DFU_STATE_DFU_IDLE /\ dfu_state # USB_DFU_STATE_DFU_DNLOAD_IDLE
    THEN DnloadProgError
    ELSE IF dfu_state = USB_DFU_STATE_DFU_IDLE /\ req.wLength = 0
    THEN DnloadProgError
    ELSE IF dfu_state = USB_DFU_STATE_DFU_DNLOAD_IDLE /\ req.wLength = 0
    THEN DnloadCompleted(ep)
    ELSE IF stage = USB_SETUP_STAGE
    THEN DnloadSetup(ep, req)
    ELSE DnloadData(ep, req)

\* mutant: a download may start empty
Mutant_DNLOAD_no_empty_check(ep, req, stage) ==
    IF ATTR_DNLOAD \notin bmAttributes
    THEN DnloadNotEnabled
    ELSE IF dfu_state # USB_DFU_STATE_DFU_IDLE /\ dfu_state # USB_DFU_STATE_DFU_DNLOAD_IDLE
    THEN DnloadProgError
    ELSE IF dfu_state = USB_DFU_STATE_DFU_DNLOAD_IDLE /\ req.wLength = 0
    THEN DnloadCompleted(ep)
    ELSE IF req.wLength > DownloadDataSize
    THEN DnloadProgError
    ELSE IF stage = USB_SETUP_STAGE
    THEN DnloadSetup(ep, req)
    ELSE DnloadData(ep, req)

dfudf_out_req_DNLOAD(ep, req, stage) ==
    IF ATTR_DNLOAD \notin bmAttributes
    THEN DnloadNotEnabled
    ELSE IF dfu_state # USB_DFU_STATE_DFU_IDLE /\ dfu_state # USB_DFU_STATE_DFU_DNLOAD_IDLE
    THEN DnloadProgError
    ELSE IF dfu_state = USB_DFU_STATE_DFU_IDLE /\ req.wLength = 0
    THEN DnloadProgError
    ELSE IF dfu_state = USB_DFU_STATE_DFU_DNLOAD_IDLE /\ req.wLength = 0
    THEN DnloadCompleted(ep)
    ELSE IF req.wLength > DownloadDataSize
    THEN DnloadProgError
    ELSE IF stage = USB_SETUP_STAGE
    THEN DnloadSetup(ep, req)
    ELSE DnloadData(ep, req)

dfudf_out_req_default(ep, req, stage) ==
    /\ dfu_state' = USB_DFU_STATE_DFU_ERROR
    /\ NoXfer(ERR_INVALID_ARG)
    /\ UNCHANGED <<dfu_status, dfu_download_length, dfu_download_offset,
                   dfu_manifestation_complete>>

dfudf_out_req(ep, req, stage) ==
    CASE req.bRequest = USB_DFU_DETACH -> dfudf_out_req_DETACH(ep, req, stage)
      [] req.bRequest = USB_DFU_CLRSTATUS -> dfudf_out_req_CLRSTATUS(ep, req, stage)
      [] req.bRequest = USB_DFU_ABORT -> dfudf_out_req_ABORT(ep, req, stage)
      [] req.bRequest = USB_DFU_DNLOAD -> dfudf_out_req_DNLOAD(ep, req, stage)
      [] OTHER -> dfudf_out_req_default(ep, req, stage)

(***************************************************************************)
(* dfudf_req: the request handler registered with the device core.         *)
(***************************************************************************)
\* (bmRequestType >> 5) & 0x03
RequestTypeBits(req) == (req.bmRequestType \div 32) % 4
\* bmRequestType & USB_EP_DIR_IN
DirIn(req) == (req.bmRequestType \div USB_EP_DIR_IN) % 2 = 1

\* mutant: the interface the request is for is not compared
Mutant_Dispatch_any_iface(req) ==
    IF RequestTypeBits(req) # 1 THEN "none"
    ELSE IF DirIn(req) THEN "in" ELSE "out"

\* the sub-handler a request is dispatched to: "in", "out" or "none"
Dispatch(req) ==
    IF RequestTypeBits(req) # 1 THEN "none"
    ELSE IF req.wIndex = func_iface
    THEN IF DirIn(req) THEN "in" ELSE "out"
    ELSE "none"

dfudf_req(ep, req, stage) ==
    /\ call' = [fn |-> "dfudf_req", ep |-> ep, req |-> req, stage |-> stage]
    /\ pre' = Snapshot
    /\ CASE Dispatch(req) = "in" -> dfudf_in_req(ep, req, stage)
         [] Dispatch(req) = "out" -> dfudf_out_req(ep, req, stage)
         [] OTHER -> NoXfer(ERR_NOT_FOUND) /\ UNCHANGED dfu_vars
    /\ UNCHANGED <<func_iface, enabled, bmAttributes>>

(***************************************************************************)
(* dfudf_ctrl: enable and disable, called by the device core.              *)
(***************************************************************************)
bInterfaceNumber(desc) == desc.sod[3]
bInterfaceClass(desc) == desc.sod[6]

\* the value dfudf_enable returns
EnableResult(desc) ==
    IF desc.sod = <<>> THEN ERR_NOT_FOUND
    ELSE IF bInterfaceClass(desc) = USB_DFU_CLASS
    THEN IF func_iface = bInterfaceNumber(desc) THEN ERR_ALREADY_INITIALIZED
         ELSE IF func_iface # NoIface THEN ERR_NO_RESOURCE
         ELSE ERR_NONE
    ELSE ERR_NOT_FOUND

dfudf_enable(desc) ==
    /\ ret' = EnableResult(desc)
    /\ IF EnableResult(desc) = ERR_NONE
       THEN /\ func_iface' = bInterfaceNumber(desc)
            /\ enabled' = TRUE
       ELSE UNCHANGED <<func_iface, enabled>>

\* the value dfudf_disable returns
DisableResult(desc) ==
    IF desc.ptr # "NULL" /\ bInterfaceClass(desc) # USB_DFU_CLASS
    THEN ERR_NOT_FOUND
    ELSE ERR_NONE

dfudf_disable(desc) ==
    /\ ret' = DisableResult(desc)
    /\ IF DisableResult(desc) = ERR_NONE
       THEN /\ func_iface' = NoIface
            /\ enabled' = FALSE
       ELSE UNCHANGED <<func_iface, enabled>>

dfudf_ctrl(ctrl, param) ==
    /\ call' = [fn |-> "dfudf_ctrl", ctrl |-> ctrl, param |-> param]
    /\ pre' = Snapshot
    /\ CASE ctrl = "USBDF_ENABLE" -> dfudf_enable(param)
         [] ctrl = "USBDF_DISABLE" -> dfudf_disable(param)
         [] ctrl = "USBDF_GET_IFACE" ->
                ret' = ERR_UNSUPPORTED_OP /\ UNCHANGED <<func_iface, enabled>>
         [] OTHER -> ret' = ERR_INVALID_ARG /\ UNCHANGED <<func_iface, enabled>>
    /\ xfers' = <<>>
    /\ UNCHANGED <<dfu_vars, bmAttributes>>

(***************************************************************************)
(* The main application (the external applier): it flashes the staged      *)
(* fragment and reports the manifestation, writing the driver's globals.   *)
(***************************************************************************)
main_flash ==
    /\ dfu_state \in {USB_DFU_STATE_DFU_DNLOAD_SYNC, USB_DFU_STATE_DFU_DNBUSY}
    /\ dfu_state' = USB_DFU_STATE_DFU_DNLOAD_IDLE
    /\ call' = [fn |-> "main_flash"]
    /\ pre' = Snapshot
    /\ NoXfer(ERR_NONE)
    /\ UNCHANGED <<dfu_status, dfu_download_length, dfu_download_offset,
                   dfu_manifestation_complete, func_iface, enabled, bmAttributes>>

main_manifest ==
    /\ dfu_state \in {USB_DFU_STATE_DFU_MANIFEST_SYNC, USB_DFU_STATE_DFU_MANIFEST}
    /\ dfu_manifestation_complete' = TRUE
    /\ call' = [fn |-> "main_manifest"]
    /\ pre' = Snapshot
    /\ NoXfer(ERR_NONE)
    /\ UNCHANGED <<dfu_state, dfu_status, dfu_download_length, dfu_download_offset,
                   func_iface, enabled, bmAttributes>>

(***************************************************************************)
(* The specification.                                                      *)
(***************************************************************************)
\* the static initialisers, after dfudf_init registered the handlers; the
\* functional descriptor is a constant of the build
Init ==
    /\ dfu_state = USB_DFU_STATE_DFU_IDLE
    /\ dfu_status = USB_DFU_STATUS_OK
    /\ dfu_download_length = 0
    /\ dfu_download_offset = 0
    /\ dfu_manifestation_complete = FALSE
    /\ func_iface = 0
    /\ enabled = FALSE
    /\ bmAttributes \in SUBSET {ATTR_DNLOAD, ATTR_MANIFEST_TOLERANT}
    /\ call = [fn |-> "none"]
    /\ pre = Snapshot
    /\ ret = ERR_NONE
    /\ xfers = <<>>

Request == \E ep \in Endpoints, req \in Requests, stage \in Stages : dfudf_req(ep, req, stage)

Enable == \E desc \in EnableDescs : dfudf_ctrl("USBDF_ENABLE", desc)

Disable == \E desc \in DisableDescs : dfudf_ctrl("USBDF_DISABLE", desc)

Control == \E ctrl \in {"USBDF_GET_IFACE", "USBDF_OTHER"} : dfudf_ctrl(ctrl, NullDesc)

Next ==
    \/ Request
    \/ Enable
    \/ Disable
    \/ Control
    \/ main_flash
    \/ main_manifest

Spec == Init /\ [][Next]_vars

(***************************************************************************)
(* Vocabulary of the properties: the last call, as the properties see it.  *)
(***************************************************************************)
\* the last call was a class request for the bound interface, host to device
OutHandled ==
    /\ call.fn = "dfudf_req"
    /\ call.req.bmRequestType = ClassOut
    /\ call.req.wIndex = pre.func_iface

\* the last call was a class request for the bound interface, device to host
InHandled ==
    /\ call.fn = "dfudf_req"
    /\ call.req.bmRequestType = ClassIn
    /\ call.req.wIndex = pre.func_iface

OutRequest(code) == OutHandled /\ call.req.bRequest = code
InRequest(code) == InHandled /\ call.req.bRequest = code

\* the last call queued exactly one zero-length acknowledgment
QueuedAck == xfers = <<[ep |-> call.ep, buf |-> "NULL", data |-> <<>>, size |-> 0]>>

\* the last call queued exactly this response
QueuedResponse(bytes) ==
    xfers = <<[ep |-> call.ep, buf |-> "response", data |-> bytes, size |-> Len(bytes)]>>

StatusUnchanged == dfu_status = pre.dfu_status
StateUnchanged == dfu_state = pre.dfu_state
StagedUnchanged ==
    /\ dfu_download_offset = pre.dfu_download_offset
    /\ dfu_download_length = pre.dfu_download_length
FlagUnchanged == dfu_manifestation_complete = pre.dfu_manifestation_complete

CanDownload == ATTR_DNLOAD \in bmAttributes

(***************************************************************************)
(* C1.  An ABORT request dispatched to dfudf_out_req, in whatever state    *)
(* and status and at either stage, leaves dfu_state = Idle and             *)
(* dfu_download_offset = 0 and queues exactly one zero-length              *)
(* acknowledgment.                                                         *)
(***************************************************************************)
C1_AbortYieldsIdle ==
    OutRequest(USB_DFU_ABORT) =>
        /\ dfu_state = USB_DFU_STATE_DFU_IDLE
        /\ dfu_download_offset = 0
        /\ QueuedAck

\* an ABORT that found a staged offset, outside Idle, with an error pending
C1_Witness ==
    /\ OutRequest(USB_DFU_ABORT)
    /\ pre.dfu_download_offset # 0
    /\ pre.dfu_state = USB_DFU_STATE_DFU_ERROR
    /\ pre.dfu_status # USB_DFU_STATUS_OK

C3_Claim ==
    ( /\ InRequest(USB_DFU_GETSTATUS)
      /\ call.stage # USB_DATA_STAGE
      /\ pre.dfu_state = USB_DFU_STATE_DFU_DNLOAD_SYNC )
      => /\ dfu_state = USB_DFU_STATE_DFU_DNBUSY
         /\ QueuedResponse(<<pre.dfu_status, 10, 0, 0, USB_DFU_STATE_DFU_DNBUSY, 0>>)

(***************************************************************************)
(* C4.  With downloading supported, a DNLOAD request in its data stage     *)
(* with block index B and length L, 1 <= L <= 512, received in Idle or     *)
(* DnloadIdle, results in dfu_state = DnloadSync, dfu_download_offset =    *)
(* B * 512, dfu_download_length = L, dfu_status unchanged and one          *)
(* zero-length acknowledgment queued.                                      *)
(***************************************************************************)
C4_DnloadStaged ==
    ( /\ OutRequest(USB_DFU_DNLOAD)
      /\ CanDownload
      /\ call.stage = USB_DATA_STAGE
      /\ call.req.wLength >= 1
      /\ call.req.wLength <= 512
      /\ pre.dfu_state \in {USB_DFU_STATE_DFU_IDLE, USB_DFU_STATE_DFU_DNLOAD_IDLE} )
      => /\ dfu_state = USB_DFU_STATE_DFU_DNLOAD_SYNC
         /\ dfu_download_offset = call.req.wValue * 512
         /\ dfu_download_length = call.req.wLength
         /\ StatusUnchanged
         /\ QueuedAck

\* a full fragment for the last block, staged from DnloadIdle
C4_Witness ==
    /\ OutRequest(USB_DFU_DNLOAD)
    /\ call.stage = USB_DATA_STAGE
    /\ call.req.wLength = 512
    /\ call.req.wValue = 65535
    /\ pre.dfu_state = USB_DFU_STATE_DFU_DNLOAD_IDLE
    /\ dfu_state = USB_DFU_STATE_DFU_DNLOAD_SYNC

(***************************************************************************)
(* C5.  As claimed: a DNLOAD request with wLength > 512 is rejected in     *)
(* every state and at every stage: afterwards dfu_state = Error and        *)
(* dfu_status = ProgramError, no transfer is queued and the staged offset  *)
(* and length are unchanged.                                               *)
(***************************************************************************)
C5_Original ==
    (OutRequest(USB_DFU_DNLOAD) /\ call.req.wLength > 512)
      => /\ dfu_state = USB_DFU_STATE_DFU_ERROR
         /\ dfu_status = USB_DFU_STATUS_ERR_PROG
         /\ xfers = <<>>
         /\ StagedUnchanged

(***************************************************************************)
(* C5, amended.  A DNLOAD request with wLength > 512 is rejected in every  *)
(* state and at every stage: afterwards dfu_state = Error, no transfer is  *)
(* queued and the staged offset and length are unchanged; with downloading *)
(* supported, dfu_status = ProgramError.                                   *)
(***************************************************************************)
C5_OversizeRejected ==
    (OutRequest(USB_DFU_DNLOAD) /\ call.req.wLength > 512)
      => /\ dfu_state = USB_DFU_STATE_DFU_ERROR
         /\ CanDownload => dfu_status = USB_DFU_STATUS_ERR_PROG
         /\ xfers = <<>>
         /\ StagedUnchanged

\* an oversized fragment offered in DnloadIdle, where a fragment is expected
C5_Witness ==
    /\ OutRequest(USB_DFU_DNLOAD)
    /\ CanDownload
    /\ call.req.wLength > 512
    /\ pre.dfu_state = USB_DFU_STATE_DFU_DNLOAD_IDLE
    /\ pre.dfu_status = USB_DFU_STATUS_OK
    /\ dfu_status = USB_DFU_STATUS_ERR_PROG

\* the state precondition of DNLOAD fails: the state is neither Idle nor
\* DnloadIdle, or it is Idle and the request carries no data
DnloadPreconditionFails ==
    \/ pre.dfu_state \notin {USB_DFU_STATE_DFU_IDLE, USB_DFU_STATE_DFU_DNLOAD_IDLE}
    \/ (pre.dfu_state = USB_DFU_STATE_DFU_IDLE /\ call.req.wLength = 0)

(***************************************************************************)
(* C6.  As claimed: a DNLOAD request whose state precondition fails ends   *)
(* with dfu_state = Error and dfu_status = ProgramError, reaches neither   *)
(* DnloadSync nor ManifestSync and queues no reply.                        *)
(***************************************************************************)
C6_Original ==
    (OutRequest(USB_DFU_DNLOAD) /\ DnloadPreconditionFails)
      => /\ dfu_state = USB_DFU_STATE_DFU_ERROR
         /\ dfu_status = USB_DFU_STATUS_ERR_PROG
         /\ xfers = <<>>

(***************************************************************************)
(* C6, amended.  With downloading supported, a DNLOAD request whose state  *)
(* precondition fails ends with dfu_state = Error and dfu_status =         *)
(* ProgramError and queues no reply.  With or without the capability, it   *)
(* ends in Error, so in neither DnloadSync nor ManifestSync, and queues    *)
(* no reply.                                                               *)
(***************************************************************************)
C6_PreconditionRejected ==
    (OutRequest(USB_DFU_DNLOAD) /\ DnloadPreconditionFails)
      => /\ dfu_state = USB_DFU_STATE_DFU_ERROR
         /\ CanDownload => dfu_status = USB_DFU_STATUS_ERR_PROG
         /\ xfers = <<>>

\* an empty download offered in Idle, with downloading supported and no
\* error pending
C6_Witness ==
    /\ OutRequest(USB_DFU_DNLOAD)
    /\ CanDownload
    /\ pre.dfu_state = USB_DFU_STATE_DFU_IDLE
    /\ pre.dfu_status = USB_DFU_STATUS_OK
    /\ call.req.wLength = 0
    /\ dfu_state = USB_DFU_STATE_DFU_ERROR

(***************************************************************************)
(* C7.  A DNLOAD request with wLength = 0 received in DnloadIdle sets      *)
(* dfu_manifestation_complete = false, moves dfu_state to ManifestSync and *)
(* queues a zero-length acknowledgment; no other step enters ManifestSync. *)
(***************************************************************************)
C7_ManifestSyncEntry ==
    /\ ( /\ OutRequest(USB_DFU_DNLOAD)
         /\ call.req.wLength = 0
         /\ pre.dfu_state = USB_DFU_STATE_DFU_DNLOAD_IDLE )
          => /\ dfu_manifestation_complete = FALSE
             /\ dfu_state = USB_DFU_STATE_DFU_MANIFEST_SYNC
             /\ QueuedAck
    /\ ( /\ dfu_state = USB_DFU_STATE_DFU_MANIFEST_SYNC
         /\ pre.dfu_state # USB_DFU_STATE_DFU_MANIFEST_SYNC )
          => /\ OutRequest(USB_DFU_DNLOAD)
             /\ call.req.wLength = 0
             /\ pre.dfu_state = USB_DFU_STATE_DFU_DNLOAD_IDLE

\* the end of a second download, which finds the flag of the first one set
C7_Witness ==
    /\ OutRequest(USB_DFU_DNLOAD)
    /\ call.req.wLength = 0
    /\ pre.dfu_state = USB_DFU_STATE_DFU_DNLOAD_IDLE
    /\ pre.dfu_manifestation_complete = TRUE
    /\ dfu_manifestation_complete = FALSE

(***************************************************************************)
(* C8.  A GETSTATUS request processed in ManifestSync moves the state to   *)
(* Manifest if dfu_manifestation_complete is false, to Idle if it is true  *)
(* and the device is manifestation tolerant, to ManifestWaitReset if it is *)
(* true and the device is not.  GETSTATUS in any state other than          *)
(* DnloadSync and ManifestSync leaves dfu_state unchanged.                 *)
(***************************************************************************)
C8_ManifestSyncPoll ==
    /\ ( /\ InRequest(USB_DFU_GETSTATUS)
         /\ call.stage # USB_DATA_STAGE
         /\ pre.dfu_state = USB_DFU_STATE_DFU_MANIFEST_SYNC )
          => dfu_state =
                IF ~pre.dfu_manifestation_complete
                THEN USB_DFU_STATE_DFU_MANIFEST
                ELSE IF ATTR_MANIFEST_TOLERANT \in bmAttributes
                THEN USB_DFU_STATE_DFU_IDLE
                ELSE USB_DFU_STATE_DFU_MANIFEST_WAIT_RESET
    /\ ( /\ InRequest(USB_DFU_GETSTATUS)
         /\ pre.dfu_state \notin {USB_DFU_STATE_DFU_DNLOAD_SYNC,
                                  USB_DFU_STATE_DFU_MANIFEST_SYNC} )
          => StateUnchanged

\* a poll after the manifestation completed, on a device that wants a reset
C8_Witness ==
    /\ InRequest(USB_DFU_GETSTATUS)
    /\ pre.dfu_state = USB_DFU_STATE_DFU_MANIFEST_SYNC
    /\ pre.dfu_manifestation_complete
    /\ dfu_state = USB_DFU_STATE_DFU_MANIFEST_WAIT_RESET

(***************************************************************************)
(* C9.  A GETSTATE request never changes dfu_state, dfu_status, the staged *)
(* offset and length or the manifestation flag, whatever the state, and    *)
(* the single byte it queues is the code of the current dfu_state.         *)
(***************************************************************************)
C9_GetStateFrame ==
    InRequest(USB_DFU_GETSTATE)
      => /\ StateUnchanged
         /\ StatusUnchanged
         /\ StagedUnchanged
         /\ FlagUnchanged
         /\ call.stage # USB_DATA_STAGE => QueuedResponse(<<pre.dfu_state>>)
         /\ xfers # <<>> => QueuedResponse(<<dfu_state>>)

\* a GETSTATE answered outside the initial state
C9_Witness ==
    /\ InRequest(USB_DFU_GETSTATE)
    /\ pre.dfu_state = USB_DFU_STATE_DFU_MANIFEST
    /\ QueuedResponse(<<USB_DFU_STATE_DFU_MANIFEST>>)

\* the request code is not one the handler of its direction recognises
OutUnrecognised ==
    /\ OutHandled
    /\ call.req.bRequest \notin {USB_DFU_DETACH, USB_DFU_DNLOAD,
                                 USB_DFU_CLRSTATUS, USB_DFU_ABORT}
InUnrecognised ==
    /\ InHandled
    /\ call.req.bRequest \notin {USB_DFU_UPLOAD, USB_DFU_GETSTATUS, USB_DFU_GETSTATE}

(***************************************************************************)
(* C10.  As claimed: a class request for the bound interface with an       *)
(* unrecognised request code drives dfu_state to Error and returns         *)
(* InvalidArgument, in either direction and at whatever stage.             *)
(***************************************************************************)
C10_Original ==
    (OutUnrecognised \/ InUnrecognised)
      => /\ dfu_state = USB_DFU_STATE_DFU_ERROR
         /\ ret = ERR_INVALID_ARG

(***************************************************************************)
(* C10, amended.  A class request for the bound interface with an          *)
(* unrecognised request code drives dfu_state to Error and returns         *)
(* InvalidArgument: host-to-device at whatever stage, device-to-host at    *)
(* any stage but the data stage.                                           *)
(***************************************************************************)
C10_UnrecognisedRejected ==
    (OutUnrecognised \/ (InUnrecognised /\ call.stage # USB_DATA_STAGE))
      => /\ dfu_state = USB_DFU_STATE_DFU_ERROR
         /\ ret = ERR_INVALID_ARG

\* an unrecognised device-to-host request that took the machine out of DnBusy
C10_Witness ==
    /\ InUnrecognised
    /\ call.stage = USB_SETUP_STAGE
    /\ pre.dfu_state = USB_DFU_STATE_DFU_DNBUSY
    /\ dfu_state = USB_DFU_STATE_DFU_ERROR
    /\ ret = ERR_INVALID_ARG

(***************************************************************************)
(* C11.  As claimed: in every reachable state dfu_state = Error implies    *)
(* dfu_status is not Ok.                                                   *)
(***************************************************************************)
C11_Claim ==
    dfu_state = USB_DFU_STATE_DFU_ERROR => dfu_status # USB_DFU_STATUS_OK

(***************************************************************************)
(* C12.  As claimed: once dfu_state = Error, it remains Error after every  *)
(* request other than CLRSTATUS.                                           *)
(***************************************************************************)
C12_Original ==
    ( /\ call.fn = "dfudf_req"
      /\ pre.dfu_state = USB_DFU_STATE_DFU_ERROR
      /\ ~OutRequest(USB_DFU_CLRSTATUS) )
      => dfu_state = USB_DFU_STATE_DFU_ERROR

(***************************************************************************)
(* C12, amended.  Once dfu_state = Error, it remains Error after every     *)
(* step other than a CLRSTATUS or an ABORT request, each of which takes    *)
(* the machine to Idle.                                                    *)
(***************************************************************************)
C12_ErrorLeftByClearOrAbort ==
    /\ ( /\ pre.dfu_state = USB_DFU_STATE_DFU_ERROR
         /\ ~OutRequest(USB_DFU_CLRSTATUS)
         /\ ~OutRequest(USB_DFU_ABORT) )
          => dfu_state = USB_DFU_STATE_DFU_ERROR
    /\ ( /\ pre.dfu_state = USB_DFU_STATE_DFU_ERROR
         /\ (OutRequest(USB_DFU_CLRSTATUS) \/ OutRequest(USB_DFU_ABORT)) )
          => dfu_state = USB_DFU_STATE_DFU_IDLE

\* a status poll answered in Error, which stays in Error
C12_Witness ==
    /\ InRequest(USB_DFU_GETSTATUS)
    /\ call.stage = USB_SETUP_STAGE
    /\ pre.dfu_state = USB_DFU_STATE_DFU_ERROR
    /\ dfu_state = USB_DFU_STATE_DFU_ERROR
    /\ xfers # <<>>

\* the type bits (6..5) of the last request mark it class-scoped
ClassScoped == (call.req.bmRequestType \div 32) % 4 = 1
\* the direction bit (7) of the last request is device-to-host
DeviceToHost == call.req.bmRequestType >= 128
\* the last request belongs to the driver: class-scoped, for func_iface
Addressed == ClassScoped /\ call.req.wIndex = pre.func_iface

AllUnchanged ==
    /\ StateUnchanged
    /\ StatusUnchanged
    /\ StagedUnchanged
    /\ FlagUnchanged
    /\ func_iface = pre.func_iface
    /\ enabled = pre.enabled

(***************************************************************************)
(* C13.  dfudf_req returns NotFound, queues nothing and leaves the state,  *)
(* the status, the staged offset and length and the manifestation flag     *)
(* unchanged whenever the request is not class-scoped or its wIndex is not *)
(* func_iface; otherwise it runs the IN handler when the direction bit is  *)
(* device-to-host and the OUT handler when it is host-to-device.  The      *)
(* handler that ran shows in the reply: GETSTATE is answered with one byte *)
(* by the IN handler and refused by the OUT handler, ABORT is acknowledged *)
(* by the OUT handler and refused by the IN handler.                       *)
(***************************************************************************)
C13_Dispatch ==
    call.fn = "dfudf_req" =>
        /\ ~Addressed => (ret = ERR_NOT_FOUND /\ xfers = <<>> /\ AllUnchanged)
        /\ Addressed => ret # ERR_NOT_FOUND
        /\ (Addressed /\ DeviceToHost /\ call.stage # USB_DATA_STAGE) =>
              /\ call.req.bRequest = USB_DFU_GETSTATE => QueuedResponse(<<pre.dfu_state>>)
              /\ call.req.bRequest = USB_DFU_ABORT =>
                    (ret = ERR_INVALID_ARG /\ xfers = <<>>)
        /\ (Addressed /\ ~DeviceToHost) =>
              /\ call.req.bRequest = USB_DFU_ABORT => QueuedAck
              /\ call.req.bRequest = USB_DFU_GETSTATE =>
                    (ret = ERR_INVALID_ARG /\ xfers = <<>>)

\* a class request for another interface than the bound one, passed through
\* while a fragment is staged
C13_Witness ==
    /\ call.fn = "dfudf_req"
    /\ ClassScoped
    /\ pre.enabled
    /\ call.req.wIndex # pre.func_iface
    /\ call.req.bRequest = USB_DFU_ABORT
    /\ dfu_state = USB_DFU_STATE_DFU_DNLOAD_SYNC
    /\ ret = ERR_NOT_FOUND

\* the last call was dfudf_enable
EnableCalled == call.fn = "dfudf_ctrl" /\ call.ctrl = "USBDF_ENABLE"
\* the interface descriptor it was given
EnableHasIface == EnableCalled /\ call.param.sod # <<>>

(***************************************************************************)
(* C14.  As claimed, for any sequence of enable and disable calls from the *)
(* initial state: enable for a class other than DFU returns NotFound; it   *)
(* returns AlreadyInitialized only when the same interface is bound by an  *)
(* earlier successful enable, NoResource only when a different interface   *)
(* is bound; otherwise (nothing bound, class DFU) it binds func_iface,     *)
(* sets enabled and returns success.  A failing enable changes neither     *)
(* func_iface nor enabled.  An interface is bound from a successful enable *)
(* to the next successful disable, which is when enabled is true.          *)
(***************************************************************************)
C14_Claim ==
    EnableHasIface =>
        /\ call.param.sod[6] # USB_DFU_CLASS => ret = ERR_NOT_FOUND
        /\ ret = ERR_ALREADY_INITIALIZED =>
              (pre.enabled /\ pre.func_iface = call.param.sod[3])
        /\ ret = ERR_NO_RESOURCE =>
              (pre.enabled /\ pre.func_iface # call.param.sod[3])
        /\ (call.param.sod[6] = USB_DFU_CLASS /\ ~pre.enabled) =>
              (ret = ERR_NONE /\ func_iface = call.param.sod[3] /\ enabled)
        /\ ret # ERR_NONE => (func_iface = pre.func_iface /\ enabled = pre.enabled)

C16_Original ==
    /\ (InHandled /\ call.stage = USB_SETUP_STAGE) => (xfers = <<>> /\ AllUnchanged)
    /\ ( /\ InRequest(USB_DFU_GETSTATUS)
         /\ call.stage = USB_DATA_STAGE
         /\ pre.dfu_state = USB_DFU_STATE_DFU_DNLOAD_SYNC )
          => (xfers # <<>> /\ dfu_state = USB_DFU_STATE_DFU_DNBUSY)

(***************************************************************************)
(* C16, amended.  The IN handler acts at the setup stage only: the         *)
(* GETSTATUS and GETSTATE responses are queued and the GETSTATUS           *)
(* transition applied when the handler is invoked at the setup stage; at   *)
(* the data stage nothing is sent, no state changes and the handler        *)
(* returns success.                                                        *)
(***************************************************************************)
C16_InActsAtSetup ==
    /\ (InHandled /\ call.stage = USB_DATA_STAGE)
          => (xfers = <<>> /\ AllUnchanged /\ ret = ERR_NONE)
    /\ ( /\ InHandled
         /\ call.stage = USB_SETUP_STAGE
         /\ call.req.bRequest \in {USB_DFU_GETSTATUS, USB_DFU_GETSTATE} )
          => Len(xfers) = 1
    /\ ( /\ InRequest(USB_DFU_GETSTATUS)
         /\ call.stage = USB_SETUP_STAGE
         /\ pre.dfu_state = USB_DFU_STATE_DFU_DNLOAD_SYNC )
          => dfu_state = USB_DFU_STATE_DFU_DNBUSY

\* the data stage of a status poll in DnloadSync, which changes nothing
C16_Witness ==
    /\ InRequest(USB_DFU_GETSTATUS)
    /\ call.stage = USB_DATA_STAGE
    /\ pre.dfu_state = USB_DFU_STATE_DFU_DNLOAD_SYNC
    /\ dfu_state = USB_DFU_STATE_DFU_DNLOAD_SYNC
    /\ xfers = <<>>

(***************************************************************************)
(* C17.  In every reachable state dfu_download_length <= 512 and           *)
(* dfu_download_offset is a multiple of 512 not above 65535 * 512, every   *)
(* receive armed into dfu_download_data is for at most 512 bytes, and      *)
(* whenever dfu_state = DnloadSync the recorded length is at least 1.      *)
(***************************************************************************)
C17_StagingBound ==
    /\ dfu_download_length <= 512
    /\ dfu_download_offset % 512 = 0
    /\ dfu_download_offset >= 0
    /\ dfu_download_offset <= 65535 * 512
    /\ \A i \in 1..Len(xfers) :
          xfers[i].buf = "dfu_download_data" => xfers[i].size <= 512
    /\ dfu_state = USB_DFU_STATE_DFU_DNLOAD_SYNC => dfu_download_length >= 1

\* a full fragment staged for the last block
C17_Witness ==
    /\ dfu_state = USB_DFU_STATE_DFU_DNLOAD_SYNC
    /\ dfu_download_length = 512
    /\ dfu_download_offset = 65535 * 512
    /\ OutRequest(USB_DFU_DNLOAD)

\* the last call accepted a DNLOAD request: it staged a fragment or ended
\* the download
DnloadAccepted ==
    /\ OutRequest(USB_DFU_DNLOAD)
    /\ dfu_state \in {USB_DFU_STATE_DFU_DNLOAD_SYNC, USB_DFU_STATE_DFU_MANIFEST_SYNC}
    /\ xfers # <<>>

(***************************************************************************)
(* C18.  As claimed: whenever dfu_status is not Ok, dfu_state is Error,    *)
(* and no DNLOAD request is accepted with a status other than Ok.          *)
(***************************************************************************)
C18_Claim ==
    /\ dfu_status # USB_DFU_STATUS_OK => dfu_state = USB_DFU_STATE_DFU_ERROR
    /\ DnloadAccepted => dfu_status = USB_DFU_STATUS_OK

(***************************************************************************)
(* C19.  As claimed: in every reachable state, from the static initial     *)
(* data on, enabled is true exactly when func_iface holds an interface     *)
(* number (func_iface # 0xFF); before the first enable or disable every    *)
(* request is passed through as NotFound.                                  *)
(***************************************************************************)
C19_Claim ==
    /\ enabled <=> func_iface # NoIface
    /\ (call.fn = "dfudf_req" /\ ~pre.enabled) => ret = ERR_NOT_FOUND

(***************************************************************************)
(* The driver without the main application: the calls of the device core   *)
(* alone, that is the host's requests and the function control.            *)
(***************************************************************************)
NextHost ==
    \/ Request
    \/ Enable
    \/ Disable
    \/ Control

SpecHost == Init /\ [][NextHost]_vars

(***************************************************************************)
(* C20.  Without the main application no sequence of requests moves        *)
(* dfu_state to DnloadIdle, nor to ManifestSync, Manifest or               *)
(* ManifestWaitReset; from DnBusy a request leaves the state unchanged or  *)
(* goes to Idle (ABORT, or CLRSTATUS with a status other than Ok) or to    *)
(* Error.                                                                  *)
(***************************************************************************)
C20_NoProgressWithoutMain ==
    /\ dfu_state \notin {USB_DFU_STATE_DFU_DNLOAD_IDLE, USB_DFU_STATE_DFU_MANIFEST_SYNC,
                         USB_DFU_STATE_DFU_MANIFEST, USB_DFU_STATE_DFU_MANIFEST_WAIT_RESET}
    /\ (pre.dfu_state = USB_DFU_STATE_DFU_DNBUSY /\ ~StateUnchanged)
          => \/ dfu_state = USB_DFU_STATE_DFU_ERROR
             \/ /\ dfu_state = USB_DFU_STATE_DFU_IDLE
                /\ \/ OutRequest(USB_DFU_ABORT)
                   \/ (OutRequest(USB_DFU_CLRSTATUS) /\ pre.dfu_status # USB_DFU_STATUS_OK)

\* a CLRSTATUS that took the machine from DnBusy to Idle, a stale error
\* status pending
C20_Witness ==
    /\ OutRequest(USB_DFU_CLRSTATUS)
    /\ pre.dfu_state = USB_DFU_STATE_DFU_DNBUSY
    /\ pre.dfu_status # USB_DFU_STATUS_OK
    /\ dfu_state = USB_DFU_STATE_DFU_IDLE

====
